---- MODULE Spec2Model ----
\* sbsevery (src/src/main.rs): a Walker thread (searcher) sends every path it
\* finds over an mpsc channel; the main thread (threader) spawns one worker
\* thread per received path, then joins them all (wait) and prints a summary.
EXTENDS Naturals, Integers, Sequences, FiniteSets, TLC

\* ---------------------------------------------------------------- bounds
\* Paths of the file tree are numbered 1..NumNodes; the entries of directory n
\* are the paths 2n and 2n+1 (1 has entries 2 and 3, 2 has entries 4 and 5, ...).
NumNodes == 3
\* The command line names 1..MaxRoots root paths.
MaxRoots == 2
\* Only inputs whose walk sends at most MaxSends paths are explored.
MaxSends == 2

Nodes == 1..NumNodes
\* A path at which nothing exists, whatever the tree.
NoPath == 0
Paths == Nodes \cup {NoPath}

\* What a path is on disk.
\*   file     a regular file
\*   dir      a directory that can be listed
\*   nolist   a directory whose listing fails (permission denied)
\*   special  a device, socket, fifo, or a symbolic link to a non-directory
\*   badentry an entry whose directory record cannot be read (read_dir yields Err)
\*   missing  nothing exists at this path
Kinds == {"file", "dir", "nolist", "special", "badentry", "missing"}

Children(n) == {c \in Nodes : c > 1 /\ c \div 2 = n}

VARIABLES
    kind,         \* the file tree: Paths -> Kinds (never changed by the program)
    roots,        \* `directories` as parsed from the command line (line 51)
    directories,  \* the roots searcher's for loop has not taken yet (line 126)
    stack,        \* push_dir's recursion: per open directory, the entries not yet visited
    wpc,          \* the Walker thread: "unspawned", "run" or "done"
    sxAlive,      \* the Sender `sx` has not been dropped
    rxAlive,      \* the Receiver `rx` has not been dropped
    chan,         \* paths sent and not yet received
    sentLog,      \* history: every path sent, in order
    visitLog,     \* history: every root and entry the Walker looked at, in order
    mainpc,       \* the main thread: "failed", "threader", "wait", "done"
    workers,      \* the worker threads, in spawn order: [file, st]
    threads,      \* the Vec of JoinHandles (handle i belongs to workers[i])
    joinedLog,    \* history: the handles joined by wait, in order
    thread_count, \* line 59
    failures,     \* line 60
    reports,      \* the summary lines printed (line 63): <<thread_count, failures>>
    exit          \* <<>> while the process runs, then <<its exit code>>

vars == <<kind, roots, directories, stack, wpc, sxAlive, rxAlive, chan, sentLog,
          visitLog, mainpc, workers, threads, joinedLog, thread_count, failures,
          reports, exit>>

walkerVars == <<directories, stack, wpc, sxAlive, chan, sentLog, visitLog>>
mainVars == <<mainpc, threads, joinedLog, thread_count, failures, reports, rxAlive,
              exit>>

\* The shape of the state.
TypeOK ==
    /\ kind \in [Paths -> Kinds]
    /\ roots \in Seq(Paths) /\ directories \in Seq(Paths)
    /\ \A i \in DOMAIN stack : stack[i] \subseteq Nodes
    /\ wpc \in {"unspawned", "run", "done"}
    /\ sxAlive \in BOOLEAN /\ rxAlive \in BOOLEAN
    /\ chan \in Seq(Paths) /\ sentLog \in Seq(Paths) /\ visitLog \in Seq(Paths)
    /\ mainpc \in {"failed", "threader", "wait", "done"}
    /\ \A i \in DOMAIN workers :
         /\ workers[i].file \in Paths
         /\ workers[i].st \in {"spawned", "success", "nonsuccess", "ioerr", "panicked"}
    /\ threads \in Seq(Nat) /\ joinedLog \in Seq(Nat)
    /\ thread_count \in Nat /\ failures \in 0..2147483647
    /\ Len(reports) <= 1
    /\ exit \in {<<>>, <<0>>, <<1>>}

\* ------------------------------------------------------- the file system
\* Path::is_dir: true for a directory (and a link to one), false for anything
\* else, a path that does not exist or cannot be examined included.
IsDir(k, n) == k[n] \in {"dir", "nolist"}

\* Path::read_dir: Err for a directory that cannot be listed, else the entries
\* that exist, each of them Ok(entry) or Err.
ReadDirOk(k, d) == k[d] = "dir"
ReadDir(k, d) == {c \in Children(d) : k[c] # "missing"}

\* Iterator::flatten over the listing: the Err entries are dropped. (The
\* listing here yields every entry, Ok or Err.)
Flatten(k, entries) == {c \in entries : k[c] # "badentry"}

\* The paths one call of push_dir / push_file sends when no send fails.
RECURSIVE WalkCount(_, _)
WalkCount(k, n) ==
    IF IsDir(k, n)
    THEN IF ReadDirOk(k, n)
         THEN LET es == Flatten(k, ReadDir(k, n))
                  a == IF 2 * n \in es THEN WalkCount(k, 2 * n) ELSE 0
                  b == IF 2 * n + 1 \in es THEN WalkCount(k, 2 * n + 1) ELSE 0
              IN a + b
         ELSE 0
    ELSE 1

RECURSIVE SumSeq(_)
SumSeq(s) == IF s = <<>> THEN 0 ELSE Head(s) + SumSeq(Tail(s))

\* A tree as it can exist: only directories have entries. (What lies inside a
\* directory that cannot be listed is never looked at; it is left empty.)
WellFormed(k) ==
    /\ k[NoPath] = "missing"
    /\ k[1] # "badentry"
    /\ \A n \in Nodes : n > 1 /\ k[n] # "missing" => k[n \div 2] = "dir"

\* A root names a path of the tree or a path that does not exist.
RootLists(k) ==
    UNION {[1..len -> {n \in Paths : k[n] \notin {"badentry", "missing"} \/ n = NoPath}] :
             len \in 1..MaxRoots}

\* main_prog has parsed its arguments and made the channel (lines 47-52), and
\* is about to spawn the Walker and call threader.
InitRun ==
    /\ kind \in {k \in [Paths -> Kinds] : WellFormed(k)}
    /\ roots \in {r \in RootLists(kind) :
                    SumSeq([i \in 1..Len(r) |-> WalkCount(kind, r[i])]) <= MaxSends}
    /\ directories = roots
    /\ stack = <<>>
    /\ wpc = "run"
    /\ sxAlive = TRUE
    /\ rxAlive = TRUE
    /\ chan = <<>>
    /\ sentLog = <<>>
    /\ visitLog = <<>>
    /\ mainpc = "threader"
    /\ workers = <<>>
    /\ threads = <<>>
    /\ joinedLog = <<>>
    /\ thread_count = 0
    /\ failures = 0
    /\ reports = <<>>
    /\ exit = <<>>

\* The key or the certificate argument is missing: result_arg's error leaves
\* main_prog with `?` (lines 49-50) before the root paths are read or the
\* channel is made, and main prints it and exits with 1 (lines 40-43).
InitConfigError ==
    /\ kind \in {k \in [Paths -> Kinds] : WellFormed(k)}
    /\ roots = <<>>
    /\ directories = <<>>
    /\ stack = <<>>
    /\ wpc = "unspawned"
    /\ sxAlive = FALSE
    /\ rxAlive = FALSE
    /\ chan = <<>>
    /\ sentLog = <<>>
    /\ visitLog = <<>>
    /\ mainpc = "failed"
    /\ workers = <<>>
    /\ threads = <<>>
    /\ joinedLog = <<>>
    /\ thread_count = 0
    /\ failures = 0
    /\ reports = <<>>
    /\ exit = <<1>>

Init == InitRun \/ InitConfigError

\* --------------------------------------------------------------- Walker
\* push_dir's for loop is over when no entry is left: it returns Ok(()) to its
\* caller (line 157), whose own loop may then be over too.
RECURSIVE Unwind(_)
Unwind(st) ==
    IF st # <<>> /\ st[Len(st)] = {}
    THEN Unwind(SubSeq(st, 1, Len(st) - 1))
    ELSE st

\* Mutant of PushFile: a sync_channel of capacity 1, whose send waits while the
\* channel is full.
PushFileBounded(file, onOk) ==
    /\ Len(chan) < 1
    /\ IF rxAlive
       THEN /\ chan' = Append(chan, file)
            /\ sentLog' = Append(sentLog, file)
            /\ stack' = Unwind(onOk)
       ELSE /\ stack' = <<>>
            /\ UNCHANGED <<chan, sentLog>>

\* push_file (lines 160-168): send the path; a send fails only when the
\* Receiver is gone, and the error is returned to the caller.
PushFile(file, onOk) ==
    IF rxAlive
    THEN /\ chan' = Append(chan, file)
         /\ sentLog' = Append(sentLog, file)
         /\ stack' = Unwind(onOk)
    ELSE \* Err: every enclosing push_dir returns it with `?` (lines 150, 152)
         /\ stack' = <<>>
         /\ UNCHANGED <<chan, sentLog>>

\* Mutant of PushDir: the listing error is returned with `?` instead of being
\* skipped, so every enclosing push_dir returns it too.
PushDirPropagate(dir, onOk) ==
    /\ stack' = IF ReadDirOk(kind, dir)
                THEN Unwind(Append(onOk, Flatten(kind, ReadDir(kind, dir))))
                ELSE <<>>
    /\ UNCHANGED <<chan, sentLog>>

\* push_dir entered (lines 144-145): list the directory; a failed listing is
\* skipped and push_dir returns Ok.
PushDir(dir, onOk) ==
    /\ stack' = IF ReadDirOk(kind, dir)
                THEN Unwind(Append(onOk, Flatten(kind, ReadDir(kind, dir))))
                ELSE Unwind(onOk)
    /\ UNCHANGED <<chan, sentLog>>

\* One node, root or entry (lines 127-131, 149-153).
Visit(n, onOk) ==
    /\ visitLog' = Append(visitLog, n)
    /\ IF IsDir(kind, n) THEN PushDir(n, onOk) ELSE PushFile(n, onOk)

\* searcher's for loop takes the next root (lines 126-135).
SearcherNext ==
    /\ wpc = "run"
    /\ stack = <<>>
    /\ directories # <<>>
    /\ directories' = Tail(directories)
    /\ Visit(Head(directories), <<>>)
    /\ UNCHANGED <<wpc, sxAlive>>
    /\ UNCHANGED <<kind, roots, workers>>
    /\ UNCHANGED mainVars

\* Mutant of PushDirEntry: the entries the listing yielded before this one are
\* dropped with it, so what is visited depends on the listing's order.
PushDirEntryDropsOthers ==
    /\ wpc = "run"
    /\ stack # <<>>
    /\ \E entry \in stack[Len(stack)] :
         Visit(entry, [stack EXCEPT ![Len(stack)] = {e \in @ : e > entry}])
    /\ UNCHANGED <<directories, wpc, sxAlive>>
    /\ UNCHANGED <<kind, roots, workers>>
    /\ UNCHANGED mainVars

\* push_dir's for loop takes the next entry of the innermost open directory,
\* in whatever order the listing yields them (lines 146-154).
PushDirEntry ==
    /\ wpc = "run"
    /\ stack # <<>>
    /\ \E entry \in stack[Len(stack)] :
         Visit(entry, [stack EXCEPT ![Len(stack)] = @ \ {entry}])
    /\ UNCHANGED <<directories, wpc, sxAlive>>
    /\ UNCHANGED <<kind, roots, workers>>
    /\ UNCHANGED mainVars

\* Mutant of SearcherReturn: the closure borrows sx instead of owning it, so
\* the Sender outlives the Walker thread.
SearcherReturnKeepSender ==
    /\ wpc = "run"
    /\ stack = <<>>
    /\ directories = <<>>
    /\ wpc' = "done"
    /\ UNCHANGED <<sxAlive, directories, stack, chan, sentLog, visitLog>>
    /\ UNCHANGED <<kind, roots, workers>>
    /\ UNCHANGED mainVars

\* searcher returns; the closure of line 54 ends and drops sx.
SearcherReturn ==
    /\ wpc = "run"
    /\ stack = <<>>
    /\ directories = <<>>
    /\ wpc' = "done"
    /\ sxAlive' = FALSE
    /\ UNCHANGED <<directories, stack, chan, sentLog, visitLog>>
    /\ UNCHANGED <<kind, roots, workers>>
    /\ UNCHANGED mainVars

Walker == SearcherNext \/ PushDirEntry \/ SearcherReturn

\* ----------------------------------------------------------- Dispatcher
\* Mutant of ThreaderRecv: the worker is spawned but its handle is not pushed.
ThreaderRecvNoPush ==
    /\ mainpc = "threader"
    /\ chan # <<>>
    /\ chan' = Tail(chan)
    /\ workers' = Append(workers, [file |-> Head(chan), st |-> "spawned"])
    /\ UNCHANGED <<directories, stack, wpc, sxAlive, sentLog, visitLog>>
    /\ UNCHANGED <<mainpc, threads, joinedLog, thread_count, failures, reports, rxAlive, exit>>
    /\ UNCHANGED <<kind, roots>>

\* Mutant of ThreaderRecv: the newest path of the channel is taken first.
ThreaderRecvLast ==
    /\ mainpc = "threader"
    /\ chan # <<>>
    /\ chan' = SubSeq(chan, 1, Len(chan) - 1)
    /\ workers' = Append(workers, [file |-> chan[Len(chan)], st |-> "spawned"])
    /\ threads' = Append(threads, Len(workers) + 1)
    /\ UNCHANGED <<directories, stack, wpc, sxAlive, sentLog, visitLog>>
    /\ UNCHANGED <<mainpc, joinedLog, thread_count, failures, reports, rxAlive, exit>>
    /\ UNCHANGED <<kind, roots>>

\* Mutant of ThreaderRecv: the next path is received only once the workers
\* started so far have ended.
ThreaderRecvAfterWorkers ==
    /\ mainpc = "threader"
    /\ chan # <<>>
    /\ \A i \in DOMAIN workers : workers[i].st # "spawned"
    /\ chan' = Tail(chan)
    /\ workers' = Append(workers, [file |-> Head(chan), st |-> "spawned"])
    /\ threads' = Append(threads, Len(workers) + 1)
    /\ UNCHANGED <<directories, stack, wpc, sxAlive, sentLog, visitLog>>
    /\ UNCHANGED <<mainpc, joinedLog, thread_count, failures, reports, rxAlive, exit>>
    /\ UNCHANGED <<kind, roots>>

\* threader's loop body (lines 95-99): recv yields a path; spawn a worker thread
\* for it and push its JoinHandle.
ThreaderRecv ==
    /\ mainpc = "threader"
    /\ chan # <<>>
    /\ chan' = Tail(chan)
    /\ workers' = Append(workers, [file |-> Head(chan), st |-> "spawned"])
    /\ threads' = Append(threads, Len(workers) + 1)
    /\ UNCHANGED <<directories, stack, wpc, sxAlive, sentLog, visitLog>>
    /\ UNCHANGED <<mainpc, joinedLog, thread_count, failures, reports, rxAlive, exit>>
    /\ UNCHANGED <<kind, roots>>

\* Mutant of ThreaderReturn: try_recv instead of recv, so the loop ends as soon
\* as the channel is empty.
ThreaderReturnTryRecv ==
    /\ mainpc = "threader"
    /\ chan = <<>>
    /\ thread_count' = Len(threads)
    /\ failures' = 0
    /\ mainpc' = "wait"
    /\ UNCHANGED <<threads, joinedLog, reports, rxAlive, exit>>
    /\ UNCHANGED walkerVars
    /\ UNCHANGED <<kind, roots, workers>>

\* Mutant of ThreaderReturn: the loop ends as soon as the Sender is dropped,
\* whatever is still queued.
ThreaderReturnOnClose ==
    /\ mainpc = "threader"
    /\ ~sxAlive
    /\ thread_count' = Len(threads)
    /\ failures' = 0
    /\ mainpc' = "wait"
    /\ UNCHANGED <<threads, joinedLog, reports, rxAlive, exit>>
    /\ UNCHANGED walkerVars
    /\ UNCHANGED <<kind, roots, workers>>

\* recv returns Err: the channel is empty and its Sender is dropped. The loop
\* ends, threader returns, and main_prog runs lines 59-60.
ThreaderReturn ==
    /\ mainpc = "threader"
    /\ chan = <<>>
    /\ ~sxAlive
    /\ thread_count' = Len(threads)
    /\ failures' = 0
    /\ mainpc' = "wait"
    /\ UNCHANGED <<threads, joinedLog, reports, rxAlive, exit>>
    /\ UNCHANGED walkerVars
    /\ UNCHANGED <<kind, roots, workers>>

\* A worker thread has ended: it returned from sign_file or it panicked.
Terminated == {"success", "nonsuccess", "ioerr", "panicked"}

\* What one joined handle adds to `failures` (lines 73-84): join gives Err for
\* a thread that panicked, else Ok(res) with res the value of sign_file.
FailureDelta(st) ==
    IF st # "panicked"
    THEN IF st # "ioerr"
         THEN IF st # "success" THEN 1 ELSE 0  \* Ok(status): lines 75-79
         ELSE 0                                \* Err(e): printed, line 80
    ELSE 0                                     \* "Thread join failed", line 83

\* Mutant of WaitJoin: wait returns at the first handle whose join fails, and
\* the handles after it are dropped unjoined.
WaitJoinStopOnPanic ==
    /\ mainpc = "wait"
    /\ Len(joinedLog) < Len(threads)
    /\ LET t == threads[Len(joinedLog) + 1] IN
         /\ workers[t].st \in Terminated
         /\ joinedLog' = Append(joinedLog, t)
         /\ failures' = failures + FailureDelta(workers[t].st)
         /\ threads' = IF workers[t].st = "panicked"
                       THEN SubSeq(threads, 1, Len(joinedLog) + 1)
                       ELSE threads
    /\ UNCHANGED <<mainpc, thread_count, reports, rxAlive, exit>>
    /\ UNCHANGED walkerVars
    /\ UNCHANGED <<kind, roots, workers>>

\* Mutant of WaitJoin: the handle's result is read without waiting for the
\* thread to end.
WaitJoinNoBlock ==
    /\ mainpc = "wait"
    /\ Len(joinedLog) < Len(threads)
    /\ LET t == threads[Len(joinedLog) + 1] IN
         /\ joinedLog' = Append(joinedLog, t)
         /\ failures' = failures + FailureDelta(workers[t].st)
    /\ UNCHANGED <<mainpc, threads, thread_count, reports, rxAlive, exit>>
    /\ UNCHANGED walkerVars
    /\ UNCHANGED <<kind, roots, workers>>

\* wait's loop body (lines 72-85): take the next handle of the Vec and join
\* it; join returns once that thread has ended.
WaitJoin ==
    /\ mainpc = "wait"
    /\ Len(joinedLog) < Len(threads)
    /\ LET t == threads[Len(joinedLog) + 1] IN
         /\ workers[t].st \in Terminated
         /\ joinedLog' = Append(joinedLog, t)
         /\ failures' = failures + FailureDelta(workers[t].st)
    /\ UNCHANGED <<mainpc, threads, thread_count, reports, rxAlive, exit>>
    /\ UNCHANGED walkerVars
    /\ UNCHANGED <<kind, roots, workers>>

\* Mutant of Report: the process exits with 1 when a failure was counted.
ReportExitOnFailures ==
    /\ mainpc = "wait"
    /\ Len(joinedLog) = Len(threads)
    /\ reports' = Append(reports, <<thread_count, failures>>)
    /\ mainpc' = "done"
    /\ rxAlive' = FALSE
    /\ exit' = IF failures > 0 THEN <<1>> ELSE <<0>>
    /\ UNCHANGED <<threads, joinedLog, thread_count, failures>>
    /\ UNCHANGED walkerVars
    /\ UNCHANGED <<kind, roots, workers>>

\* wait's loop is over: print the summary (line 63) and return from main_prog
\* with Ok(()), which drops rx; main returns and the process exits with 0.
Report ==
    /\ mainpc = "wait"
    /\ Len(joinedLog) = Len(threads)
    /\ reports' = Append(reports, <<thread_count, failures>>)
    /\ mainpc' = "done"
    /\ rxAlive' = FALSE
    /\ exit' = <<0>>
    /\ UNCHANGED <<threads, joinedLog, thread_count, failures>>
    /\ UNCHANGED walkerVars
    /\ UNCHANGED <<kind, roots, workers>>

Dispatcher == ThreaderRecv \/ ThreaderReturn \/ WaitJoin \/ Report

\* --------------------------------------------------------------- workers
\* Mutant of SetSt: the workers count their own failures in a shared counter.
SetStSharedCounter(i, st) ==
    /\ workers' = [workers EXCEPT ![i].st = st]
    /\ failures' = IF st = "nonsuccess" THEN failures + 1 ELSE failures
    /\ UNCHANGED walkerVars
    /\ UNCHANGED <<mainpc, threads, joinedLog, thread_count, reports, rxAlive, exit>>
    /\ UNCHANGED <<kind, roots>>

\* A worker thread ends with outcome st; it writes nothing else.
SetSt(i, st) ==
    /\ workers' = [workers EXCEPT ![i].st = st]
    /\ UNCHANGED walkerVars
    /\ UNCHANGED mainVars
    /\ UNCHANGED <<kind, roots>>

\* The worker thread runs sign_file to its end (lines 109-122): sbsign is
\* launched and waited for, giving its exit status, success or not; or
\* spawn() or wait() fails and the io::Error is returned.
SignFile(i) ==
    /\ i \in 1..Len(workers)
    /\ workers[i].st = "spawned"
    /\ \E st \in {"success", "nonsuccess", "ioerr"} : SetSt(i, st)

\* The worker thread panics (with -v, the eprintln! of line 109 panics when
\* stderr cannot be written): its JoinHandle's join returns Err.
WorkerPanic(i) ==
    /\ i \in 1..Len(workers)
    /\ workers[i].st = "spawned"
    /\ SetSt(i, "panicked")

Worker(i) == SignFile(i) \/ WorkerPanic(i)

WorkerIds == 1..MaxSends

Next == Walker \/ Dispatcher \/ \E i \in WorkerIds : Worker(i)

Spec == Init /\ [][Next]_vars

\* Every thread that can take a step eventually takes one (the OS schedules
\* every runnable thread), and every sbsign subprocess eventually exits.
FairSpec ==
    /\ Spec
    /\ WF_vars(Walker)
    /\ WF_vars(Dispatcher)
    /\ \A i \in WorkerIds : WF_vars(Worker(i))

\* ------------------------------------------- searcher on a closed channel
\* The Receiver goes away while the Walker runs, and what was queued is dropped
\* with it. (rx is owned by main_prog: this happens when main_prog is unwound
\* by a panic, as std::thread::spawn of line 98 panics when no thread can be
\* made.)
ReceiverDropped ==
    /\ rxAlive
    /\ wpc = "run"
    /\ rxAlive' = FALSE
    /\ chan' = <<>>
    /\ UNCHANGED <<directories, stack, wpc, sxAlive, sentLog, visitLog>>
    /\ UNCHANGED <<mainpc, threads, joinedLog, thread_count, failures, reports, exit>>
    /\ UNCHANGED <<kind, roots, workers>>

\* searcher alone, handed a Sender whose Receiver can go away at any moment.
SearcherSpec == InitRun /\ [][Walker \/ ReceiverDropped]_vars

\* -------------------------------------------------------------- progress
\* The nodes at and below n.
RECURSIVE SubtreeSize(_)
SubtreeSize(n) ==
    IF n \notin Nodes THEN 0 ELSE 1 + SubtreeSize(2 * n) + SubtreeSize(2 * n + 1)

RECURSIVE SumSet(_)
SumSet(S) ==
    IF S = {} THEN 0
    ELSE LET n == CHOOSE x \in S : TRUE IN SubtreeSize(n) + SumSet(S \ {n})

\* The work left: nodes the Walker may still visit, paths to receive, workers
\* to end, handles to join, and the threads' own last steps.
Rank ==
    5 * ((IF wpc = "run" THEN 1 ELSE 0)
         + Len(directories) * (NumNodes + 1)
         + SumSeq([i \in DOMAIN stack |-> SumSet(stack[i])]))
    + 4 * Len(chan)
    + 2 * Cardinality({i \in DOMAIN workers : workers[i].st = "spawned"})
    + (Len(threads) - Len(joinedLog))
    + (IF mainpc = "threader" THEN 2 ELSE IF mainpc = "wait" THEN 1 ELSE 0)

\* Every step does some of the work left, so no run goes on for ever.
RankDecreases == [][Rank' < Rank]_vars

\* Until the summary is printed some thread can take a step.
NoDeadlock == mainpc = "failed" \/ (mainpc = "done" /\ wpc = "done") \/ ENABLED Next

\* ---------------------------------------------------------------- claims
Range(s) == {s[i] : i \in DOMAIN s}
Count(s, x) == Cardinality({i \in DOMAIN s : s[i] = x})
WorkerFiles == [i \in DOMAIN workers |-> workers[i].file]
WithSt(S) == {i \in DOMAIN workers : workers[i].st \in S}

\* C1: every path sent is either still in the channel or was received exactly
\* once, in order, and each receive spawned one worker and recorded one handle;
\* once the receive loop has ended there are as many handles as sends.
C1_EachSendOneWorker ==
    /\ sentLog = WorkerFiles \o chan
    /\ Len(threads) = Len(workers)
    /\ \A i \in DOMAIN threads : threads[i] = i
    /\ mainpc # "threader" => /\ WorkerFiles = sentLog
                              /\ Len(threads) = Len(sentLog)
                              /\ thread_count = Len(sentLog)

C1_Witness ==
    /\ mainpc = "wait"
    /\ Len(sentLog) = 2
    /\ Len(threads) = 2

\* The regular files the expansion rule reaches from a node: a regular file is
\* emitted, a directory is recursed into, every other node is skipped.
RECURSIVE ExpandCount(_, _)
ExpandCount(k, n) ==
    IF n \notin Nodes THEN 0
    ELSE IF k[n] = "file" THEN 1
    ELSE IF k[n] = "dir" THEN ExpandCount(k, 2 * n) + ExpandCount(k, 2 * n + 1)
    ELSE 0

\* C2: the number of workers started equals the number of regular files the
\* expansion rule reaches from the roots, counted once per root.
C2_WorkersEqualRegularFiles ==
    mainpc = "done" =>
        thread_count = SumSeq([i \in DOMAIN roots |-> ExpandCount(kind, roots[i])])

\* C3: in a run over regular files with no join failure, the reported failure
\* count is the number of workers whose sbsign exited non-success or could not
\* be launched or waited on.
C3_FailuresCountIoErrors ==
    (/\ mainpc = "done"
     /\ WithSt({"panicked"}) = {}
     /\ \A i \in DOMAIN workers : kind[workers[i].file] = "file") =>
        failures = Cardinality(WithSt({"nonsuccess", "ioerr"}))

\* C4: joining the handle of a worker (for a regular file) whose thread
\* panicked adds exactly one to failures.
C4_JoinFailureCounts ==
    [][\A t \in DOMAIN workers :
         (/\ joinedLog' = Append(joinedLog, t)
          /\ workers[t].st = "panicked"
          /\ kind[workers[t].file] = "file")
             => failures' = failures + 1]_vars

\* C5: wait joins the recorded handles one by one, each exactly once, and when
\* it is over as many outcomes were collected as workers were started, whatever
\* the workers' outcomes.
C5_EveryHandleJoinedOnce ==
    /\ Len(joinedLog) <= Len(threads)
    /\ joinedLog = SubSeq(threads, 1, Len(joinedLog))
    /\ \A t \in Range(joinedLog) : Count(joinedLog, t) = 1
    /\ mainpc = "done" => /\ joinedLog = threads
                          /\ Len(joinedLog) = thread_count
                          /\ thread_count = Len(workers)

C5_Witness ==
    /\ mainpc = "done"
    /\ Len(joinedLog) = 2
    /\ workers[1].st \in {"ioerr", "panicked"}
    /\ workers[2].st = "success"

\* C6: a root path that does not exist is never sent and gets no worker.
C6_MissingRootSkipped ==
    /\ \A i \in DOMAIN sentLog : kind[sentLog[i]] # "missing"
    /\ \A i \in DOMAIN workers : kind[workers[i].file] # "missing"

\* C7: a node that is neither a regular file nor a directory is never sent and
\* never gets a worker.
C7_SpecialNodeNoWorker ==
    /\ \A i \in DOMAIN sentLog : kind[sentLog[i]] # "special"
    /\ \A i \in DOMAIN workers : kind[workers[i].file] # "special"

\* The expansion rule reaches f from n through directories that can be listed.
RECURSIVE Reaches(_, _, _)
Reaches(k, n, f) ==
    \/ n = f
    \/ k[n] = "dir" /\ \E c \in Children(n) : Reaches(k, c, f)

\* C8: when the Walker ends it has sent every regular file once per root that
\* reaches it, whatever directories could not be listed and entries could not
\* be read on the way; the unreadable nodes themselves are never sent.
C8_ErrorSkipsOnlyThatNode ==
    /\ \A n \in Nodes : kind[n] \in {"nolist", "badentry"} => Count(sentLog, n) = 0
    /\ wpc = "done" =>
         \A f \in Nodes : kind[f] = "file" =>
             Count(sentLog, f) =
                 Cardinality({i \in DOMAIN roots : Reaches(kind, roots[i], f)})

C8_Witness ==
    /\ wpc = "done"
    /\ kind[2] = "nolist"
    /\ kind[3] = "file"
    /\ visitLog = <<1, 2, 3>>
    /\ sentLog = <<3>>

\* C9: the summary is printed at most once, and only when the Walker has ended,
\* the channel is empty, and every worker started has ended and been joined.
C9_ReportOnceAfterAllJoined ==
    /\ Len(reports) <= 1
    /\ reports # <<>> =>
         /\ wpc = "done"
         /\ ~sxAlive
         /\ chan = <<>>
         /\ Len(workers) = Len(sentLog)
         /\ \A i \in DOMAIN workers :
              workers[i].st \in Terminated /\ Count(joinedLog, i) = 1
         /\ reports[1] = <<Len(workers), failures>>

C9_Witness ==
    /\ Len(reports) = 1
    /\ Len(workers) = 2
    /\ reports[1][1] = 2

\* C10: every run that starts the pipeline reaches the summary: the Walker ends
\* and closes the channel, the receive loop ends, and every worker started is
\* joined.
C10_RunReachesReport ==
    (mainpc = "threader") ~>
      (/\ mainpc = "done"
       /\ reports # <<>>
       /\ wpc = "done"
       /\ ~sxAlive
       /\ chan = <<>>
       /\ joinedLog = threads
       /\ Len(threads) = Len(sentLog))

C10_Witness ==
    /\ mainpc = "done"
    /\ reports = <<<<2, 1>>>>
    /\ kind[1] = "dir"
    /\ Len(visitLog) = 3

\* C11: workers are spawned, and their handles recorded, in the order their
\* paths were sent: the i-th worker is the worker of the i-th path sent. (The
\* order in which they end is free: see the witness.)
C11_SpawnOrderIsSendOrder ==
    /\ Len(workers) <= Len(sentLog)
    /\ \A i \in DOMAIN workers : workers[i].file = sentLog[i] /\ threads[i] = i

C11_Witness ==
    /\ Len(workers) = 2
    /\ workers[1].file # workers[2].file
    /\ workers[1].st = "spawned"
    /\ workers[2].st = "success"

\* C12: whenever the receive loop runs and a path is queued, receive-and-spawn
\* can be taken, however many workers are still running.
C12_RecvNeverWaitsForWorkers ==
    (mainpc = "threader" /\ chan # <<>>) => ENABLED ThreaderRecv

\* Every path of the run has a worker and all of them are still running, while
\* the receive loop has not ended.
C12_Witness ==
    /\ mainpc = "threader"
    /\ wpc = "done"
    /\ Len(sentLog) = 2
    /\ Len(workers) = 2
    /\ \A i \in DOMAIN workers : workers[i].st = "spawned"

\* C13: a run that got past the arguments ends with exit code 0 whatever the
\* failures it reports; the exit code is 1 only when the configuration step
\* failed, and then nothing of the pipeline has run.
C13_ExitCodeIgnoresFailures ==
    /\ mainpc \in {"threader", "wait"} => exit = <<>>
    /\ mainpc = "done" => exit = <<0>> /\ reports = <<<<thread_count, failures>>>>
    /\ exit = <<1>> <=> mainpc = "failed"
    /\ mainpc = "failed" => reports = <<>> /\ visitLog = <<>> /\ workers = <<>>

C13_Witness ==
    /\ mainpc = "done"
    /\ failures = 1
    /\ exit = <<0>>

\* C14 as stated: the channel has a capacity that the paths sent and not yet
\* received never exceed; for any capacity below the number of paths of a run.
C14_ChannelBounded == Len(chan) < MaxSends

\* C14 amended: the channel is unbounded. A send never waits, however many
\* paths are queued: the Walker's next step can always be taken.
C14_SendNeverWaits ==
    /\ (wpc = "run" /\ stack = <<>> /\ directories # <<>>) => ENABLED SearcherNext
    /\ (wpc = "run" /\ stack # <<>>) => ENABLED PushDirEntry

\* The Walker has sent every path and ended before any was received.
C14_Witness ==
    /\ wpc = "done"
    /\ Len(chan) = 2
    /\ workers = <<>>

\* The times path p is sent by the walk of node n: what searcher and push_dir
\* do, as a function of the tree alone.
RECURSIVE WalkSends(_, _, _)
WalkSends(k, n, p) ==
    IF IsDir(k, n)
    THEN IF ReadDirOk(k, n)
         THEN LET es == Flatten(k, ReadDir(k, n))
                  a == IF 2 * n \in es THEN WalkSends(k, 2 * n, p) ELSE 0
                  b == IF 2 * n + 1 \in es THEN WalkSends(k, 2 * n + 1, p) ELSE 0
              IN a + b
         ELSE 0
    ELSE IF n = p THEN 1 ELSE 0

\* C16: the multiset of paths a walk sends is a function of the roots and the
\* tree, whatever order the listings yield their entries in; so two walks of
\* the same roots over an unchanged tree send the same multiset.
C16_SentMultisetIsFunctionOfTree ==
    wpc = "done" =>
        \A p \in Paths :
            Count(sentLog, p) =
                SumSeq([i \in DOMAIN roots |-> WalkSends(kind, roots[i], p)])

\* A listing yielded entry 3 before entry 2.
C16_Witness ==
    /\ wpc = "done"
    /\ roots = <<1>>
    /\ sentLog = <<3, 2>>

\* C17: the receive loop has ended only if the Walker has ended and dropped its
\* Sender and every path sent was received; and once the Sender is dropped
\* nothing more is sent.
C17_LoopEndsOnlyOnClosedAndDrained ==
    /\ [](mainpc \in {"wait", "done"} =>
            /\ wpc = "done"
            /\ ~sxAlive
            /\ chan = <<>>
            /\ WorkerFiles = sentLog)
    /\ [][~sxAlive => sentLog' = sentLog /\ Len(chan') <= Len(chan)]_vars

C17_Witness ==
    /\ mainpc = "wait"
    /\ joinedLog = <<>>
    /\ Len(sentLog) = 2
    /\ workers[2].st = "spawned"

\* The calls of push_file so far (one per node visited that is no directory),
\* and those of them whose send failed.
PushFileCalls == {i \in DOMAIN visitLog : ~IsDir(kind, visitLog[i])}
FailedSends == Cardinality(PushFileCalls) - Len(sentLog)

\* C18: in a walk over regular files and directories, once a send has failed
\* the Walker visits nothing more and attempts no other send: the failed send
\* is the last node visited, and the only one.
C18_WalkerStopsAtFailedSend ==
    (/\ FailedSends >= 1
     /\ \A i \in PushFileCalls : kind[visitLog[i]] = "file") =>
        FailedSends = 1 /\ Len(visitLog) \in PushFileCalls

\* C19: the summary is a function of the roots, the tree and the workers'
\* outcomes: as many workers as the walk sends paths, and as many failures as
\* workers that ended with a non-success exit status, whatever the interleaving.
C19_ReportIsFunctionOfInputs ==
    mainpc = "done" =>
        reports = << << SumSeq([i \in DOMAIN roots |-> WalkCount(kind, roots[i])]),
                        Cardinality(WithSt({"nonsuccess"})) >> >>

C19_Witness ==
    /\ mainpc = "done"
    /\ Len(workers) = 2
    /\ workers[1].st = "success"
    /\ workers[2].st = "nonsuccess"
    /\ reports[1][2] = 1

\* C20: while the receive loop runs no handle is joined and failures is not
\* written; once it has ended no worker is started; and failures changes only in
\* a step of wait that joins a handle, never in a worker's step.
C20_PhasesSeparated ==
    /\ [](mainpc = "threader" => joinedLog = <<>> /\ failures = 0 /\ reports = <<>>)
    /\ [][mainpc # "threader" => Len(workers') = Len(workers)]_vars
    /\ [][failures' # failures =>
            /\ mainpc = "wait"
            /\ Len(joinedLog') = Len(joinedLog) + 1
            /\ workers' = workers]_vars
    /\ [][workers' # workers => failures' = failures /\ joinedLog' = joinedLog]_vars

C20_Witness ==
    /\ mainpc = "done"
    /\ failures = 2
    /\ Len(joinedLog) = 2
====
